---------------------------- MODULE Spec2Model ----------------------------
(***************************************************************************)
(* gb_transformer: the paginated fetch (multiFetch), the snapshot          *)
(* assembly (loadGuidebook and the GuideBook.Fetch* methods), the          *)
(* transform (WatsonFromGuidebook) and main, as a state machine.           *)
(*                                                                         *)
(* The remote API is a black box: every response is chosen by the          *)
(* environment when the request is answered.  The requests a multiFetch    *)
(* call has issued and the responses it has received are kept as its       *)
(* history (requests, responses); run keeps the totals of the whole run.   *)
(***************************************************************************)
EXTENDS Integers, Sequences, FiniteSets, TLC

(***************************************************************************)
(* Bounds of the environment.                                              *)
(***************************************************************************)
\* A response asks for more when it makes multiFetch issue one more request
\* of the same chain: a 200 with a non-empty next, a retried 429.
\* the responses that ask for more, and the result objects handed out over
\* all pages, in a whole run
RunExtra == 1
RunItems == 3
\* the same, in a run observed up to the end of its first chain
ChainExtra == 2
ChainItems == 3
\* the result objects handed out in a run whose server is not held to a number
\* of responses that ask for more
ForeverItems == 0
\* the bits the model keeps of an int
IntBits == 4

(***************************************************************************)
(* Program constants.                                                      *)
(***************************************************************************)
GUESTS_OF_HONOR_ID == 1153959
VIRTUAL_ROOM_1 == 5074259
VIRTUAL_ROOM_2 == 5074260
StatusOK == 200
StatusTooManyRequests == 429
GB_TARGET_TYPE_PERSON == "custom_list.customlistitem"
GB_TARGET_TYPE_STREAM == "uri_resource.webview"
SESSION_SOURCE_TYPE == "schedule.session"

VARIABLES
    pc,          \* position of main / loadGuidebook
    mf,          \* the running multiFetch call: its locals and its result
    gb,          \* the GuideBook snapshot being assembled
    guideBookRequestCounter,
    clock,       \* seconds the latest multiFetch call has slept (time.Sleep)
    requests,    \* history: the requests of the latest multiFetch call, in order
    responses,   \* history: the responses to them, in order
    run,         \* history: the totals of the run and the chains it has fetched
    err,         \* the error main ends with, if any
    watson,      \* the call of WatsonFromGuidebook: its argument and its results
    output       \* what main has written

vars == <<pc, mf, gb, guideBookRequestCounter, clock, requests, responses, run, err, watson, output>>

(***************************************************************************)
(* Go maps and slices.                                                     *)
(***************************************************************************)
EmptyMap == <<>>

Has(m, k) == k \in DOMAIN m

\* m[k] of a Go map: the zero value when the key is absent
Get(m, k, zero) == IF k \in DOMAIN m THEN m[k] ELSE zero

\* m[k] = v
Put(m, k, v) == [x \in (DOMAIN m) \cup {k} |-> IF x = k THEN v ELSE m[x]]

Range(s) == {s[i] : i \in DOMAIN s}

RECURSIVE Flatten(_)
Flatten(ss) == IF ss = <<>> THEN <<>> ELSE Head(ss) \o Flatten(Tail(ss))

RECURSIVE SumLen(_)
SumLen(ss) == IF ss = <<>> THEN 0 ELSE Len(Head(ss)) + SumLen(Tail(ss))

\* the orders in which a Go range over a map may visit the key set S
Orders(S) == {o \in [1..Cardinality(S) -> S] : Range(o) = S}


(***************************************************************************)
(* The remote API.  A result object is modelled by the typed record its    *)
(* decoder makes of it; Malformed is an object with a field of the wrong   *)
(* JSON type, which no decoder accepts.                                    *)
(***************************************************************************)
Collections == <<"sessions", "locations", "schedule-tracks", "custom-lists",
                 "custom-list-items", "links">>

Malformed == [malformed |-> TRUE]

\* a timestamp string: seconds of the day, the digits of the fractional
\* second as written, and the text that follows them
Stamp(sec, frac, zone) == [sec |-> sec, frac |-> frac, zone |-> zone]

SessionObjects ==
    { [ID |-> 1, Name |-> "Opening", Description |-> "<p>Welcome</p>",
       StartTime |-> Stamp(36000, <<0>>, "+0000"),
       EndTime |-> Stamp(37950, <<0>>, "+0000"),
       Locations |-> <<VIRTUAL_ROOM_1>>, ScheduleTracks |-> <<1>>],
      [ID |-> 3, Name |-> "Broken", Description |-> "",
       StartTime |-> Stamp(36000, <<>>, "Z"),
       EndTime |-> Stamp(36060, <<>>, "+0000"),
       Locations |-> <<7>>, ScheduleTracks |-> <<9>>] }

LocationObjects == { [ID |-> 7, Name |-> "Room X"] }

\* a track name is kept as its characters, for the tag values made of it
ArtAndCraft == <<"A", "r", "t", " ", "&", " ", "C", "r", "a", "f", "t">>

Virtual == <<"v", "i", "r", "t", "u", "a", "l">>

TrackObjects == { [ID |-> 1, Name |-> ArtAndCraft] }

\* Items is the direct listing "items", which the API may or may not give
ListObjects ==
    { [ID |-> 10, Name |-> "Sponsors", Items |-> <<>>],
      [ID |-> GUESTS_OF_HONOR_ID, Name |-> "Guests of Honor", Items |-> <<5>>] }

ItemObjects ==
    { [ID |-> 1, Name |-> "Ann", CustomLists |-> <<10>>],
      [ID |-> 2, Name |-> "Bob", CustomLists |-> <<10, GUESTS_OF_HONOR_ID>>],
      [ID |-> 1, Name |-> "Ann B", CustomLists |-> <<11>>] }

CatLink(st, sid, tt, tid) ==
    [SourceType |-> st, SourceID |-> sid, TargetType |-> tt, TargetID |-> tid]

LinkObjects ==
    { CatLink(SESSION_SOURCE_TYPE, 1, GB_TARGET_TYPE_PERSON, 1),
      CatLink(SESSION_SOURCE_TYPE, 1, GB_TARGET_TYPE_STREAM, 1),
      CatLink(SESSION_SOURCE_TYPE, 3, GB_TARGET_TYPE_PERSON, 2),
      CatLink("custom_list.customlistitem", 1, GB_TARGET_TYPE_STREAM, 1),
      CatLink("custom_list.customlistitem", 1, GB_TARGET_TYPE_STREAM, 2) }

Objects(what) ==
    CASE what = "sessions" -> SessionObjects
      [] what = "locations" -> LocationObjects
      [] what = "schedule-tracks" -> TrackObjects
      [] what = "custom-lists" -> ListObjects
      [] what = "custom-list-items" -> ItemObjects
      [] what = "links" -> LinkObjects

\* the lists of at most n elements of S
SeqsUpTo(S, n) == UNION {[1..k -> S] : k \in 0..n}

\* the Retry-After header as its characters; <<>> is an absent header
RetryAfterHeaders == { <<>>, <<"0">>, <<"-", "1">>, <<"a">>, <<"1">>, <<"2">> }

\* the cursors a page may give as its next; "" is a page without next
NextURLs == {"", "cursor"}

\* status 0: the request failed without a response (client.Do returned an error)
Response(status, header, body, decodable, results, next) ==
    [status |-> status, retryAfter |-> header, body |-> body,
     decodable |-> decodable, results |-> results, next |-> next]

(***************************************************************************)
(* strconv.Atoi on the characters of a header.                             *)
(***************************************************************************)
Digits == {"0", "1", "2", "3", "4", "5", "6", "7", "8", "9"}

DigitVal(c) ==
    CASE c = "0" -> 0 [] c = "1" -> 1 [] c = "2" -> 2 [] c = "3" -> 3 [] c = "4" -> 4
      [] c = "5" -> 5 [] c = "6" -> 6 [] c = "7" -> 7 [] c = "8" -> 8 [] c = "9" -> 9

RECURSIVE DecimalVal(_, _)
DecimalVal(cs, acc) ==
    IF cs = <<>> THEN acc ELSE DecimalVal(Tail(cs), 10 * acc + DigitVal(Head(cs)))

\* the value of strconv.Atoi(s); 0 when it returns an error
Atoi(s) ==
    LET signed == s # <<>> /\ Head(s) \in {"-", "+"}
        ds     == IF signed THEN Tail(s) ELSE s
    IN  IF ds = <<>> \/ \E i \in DOMAIN ds : ds[i] \notin Digits
        THEN 0
        ELSE IF signed /\ Head(s) = "-" THEN 0 - DecimalVal(ds, 0) ELSE DecimalVal(ds, 0)


(***************************************************************************)
(* Errors: the innermost message with what it carries, and the messages    *)
(* wrapped around it by fmt.Errorf("...: %w"), outermost first.            *)
(***************************************************************************)
NoErr == [msg |-> "", what |-> "", status |-> 0, body |-> "", chain |-> <<>>]

Errorf(msg, what, status, body) ==
    [msg |-> msg, what |-> what, status |-> status, body |-> body, chain |-> <<>>]

Wrap(msg, e) == [e EXCEPT !.chain = <<msg>> \o @]

(***************************************************************************)
(* multiFetch                                                              *)
(***************************************************************************)
NoBuf == [null |-> TRUE, array |-> <<>>]

MfIdle == [state |-> "idle", what |-> "", nextURL |-> "", allResults |-> <<>>,
           buf |-> NoBuf, err |-> NoErr]

\* the URL of the first request of a chain: the base URL templated with the
\* collection name (the guide id is the same for every request of a run)
InitialURL(fetchWhat) == fetchWhat

MfStart(fetchWhat) ==
    [MfIdle EXCEPT !.state = "send", !.what = fetchWhat, !.nextURL = InitialURL(fetchWhat)]

\* RetryWait with an absent header taken as a wait of one second
RetryWaitDefault(resp) == IF resp.retryAfter = <<>> THEN 1 ELSE Atoi(resp.retryAfter)

\* retryWait, _ := strconv.Atoi(resp.Header.Get("Retry-After"))
RetryWait(resp) == Atoi(resp.retryAfter)

\* SleepSeconds without the extra second
SleepSecondsExact(retryWait) == retryWait

\* the seconds slept before the retry
SleepSeconds(retryWait) == 1 + retryWait

\* AppendResults with the new page put in front
AppendResultsInFront(allResults, results) == results \o allResults

\* allResults = append(allResults, response.Results...)
AppendResults(allResults, results) == allResults \o results

\* json.Marshal(allResults): a nil slice is encoded as null
Marshal(allResults) == [null |-> allResults = <<>>, array |-> allResults]

\* MfFail with the pages accumulated so far returned along with the error
MfFailWithResults(m, e) ==
    [m EXCEPT !.state = "failed", !.err = e,
              !.buf = [null |-> m.allResults = <<>>, array |-> m.allResults]]

\* return nil, err
MfFail(m, e) == [m EXCEPT !.state = "failed", !.err = e]

\* MfLoop with a loop that goes on while the last page had results
MfLoopWhileResults(m) ==
    IF m.allResults # <<>> /\ m.nextURL = ""
    THEN [m EXCEPT !.state = "send"]
    ELSE IF m.nextURL # "" THEN [m EXCEPT !.state = "send"]
    ELSE [m EXCEPT !.state = "ok", !.buf = [null |-> m.allResults = <<>>, array |-> m.allResults]]

\* the top of the loop after a page: another request, or the return
MfLoop(m) ==
    IF m.nextURL # ""
    THEN [m EXCEPT !.state = "send"]
    ELSE [m EXCEPT !.state = "ok", !.buf = Marshal(m.allResults)]

\* an int after an overflow: Go's signed integers wrap around
WrapInt(n) == ((n + 2^(IntBits - 1)) % 2^IntBits) - 2^(IntBits - 1)

\* the counter after a response with status 200
CountSuccess(counter) == WrapInt(counter + 1)

\* HandleResponse with a loop that ends at a page whose next link is the
\* URL it was fetched from
HandleResponseCycleGuard(m, resp, counter) ==
    IF resp.status = 0
    THEN [mf |-> MfFail(m, Errorf("failed to execute request", m.what, 0, "")),
          counter |-> counter, slept |-> 0]
    ELSE IF resp.status # StatusOK
    THEN IF resp.status = StatusTooManyRequests /\ RetryWait(resp) > 0
         THEN [mf |-> [m EXCEPT !.state = "send"],
               counter |-> counter, slept |-> SleepSeconds(RetryWait(resp))]
         ELSE [mf |-> MfFail(m, Errorf("guidebook API request failed with status",
                                        m.what, resp.status, resp.body)),
               counter |-> counter, slept |-> 0]
    ELSE IF ~resp.decodable
    THEN [mf |-> MfFail(m, Errorf("failed to decode multi response", "", 0, "")),
          counter |-> CountSuccess(counter), slept |-> 0]
    ELSE [mf |-> MfLoop([m EXCEPT !.allResults = AppendResults(@, resp.results),
                                  !.nextURL = IF resp.next = m.nextURL THEN "" ELSE resp.next]),
          counter |-> CountSuccess(counter), slept |-> 0]

\* One pass of the loop body from client.Do on: the call's new locals, the
\* request counter and the seconds slept.
HandleResponse(m, resp, counter) ==
    IF resp.status = 0
    THEN [mf |-> MfFail(m, Errorf("failed to execute request", m.what, 0, "")),
          counter |-> counter, slept |-> 0]
    ELSE IF resp.status # StatusOK
    THEN IF resp.status = StatusTooManyRequests /\ RetryWait(resp) > 0
         THEN [mf |-> [m EXCEPT !.state = "send"],
               counter |-> counter, slept |-> SleepSeconds(RetryWait(resp))]
         ELSE [mf |-> MfFail(m, Errorf("guidebook API request failed with status",
                                        m.what, resp.status, resp.body)),
               counter |-> counter, slept |-> 0]
    ELSE IF ~resp.decodable
    THEN [mf |-> MfFail(m, Errorf("failed to decode multi response", "", 0, "")),
          counter |-> CountSuccess(counter), slept |-> 0]
    ELSE [mf |-> MfLoop([m EXCEPT !.allResults = AppendResults(@, resp.results),
                                  !.nextURL = resp.next]),
          counter |-> CountSuccess(counter), slept |-> 0]

(***************************************************************************)
(* The environment's choice of a response, within the bounds.              *)
(***************************************************************************)
\* the response makes multiFetch issue another request of the chain
AsksForMore(resp) ==
    \/ resp.status = StatusTooManyRequests /\ Atoi(resp.retryAfter) > 0
    \/ resp.status = StatusOK /\ resp.decodable /\ resp.next # ""

ServerResponses(what) ==
    LET room == run.maxItems - run.served
        more == run.forever \/ run.extras < run.maxExtra
    IN  {Response(0, <<>>, "", FALSE, <<>>, "")}
        \cup {Response(StatusTooManyRequests, h, "Too Many Requests", FALSE, <<>>, "") :
                 h \in {x \in RetryAfterHeaders : more \/ Atoi(x) <= 0}}
        \cup {Response(500, <<>>, "Internal Server Error", FALSE, <<>>, "")}
        \cup {Response(StatusOK, <<>>, "<html>", FALSE, <<>>, "")}
        \cup {Response(StatusOK, <<>>, "{}", TRUE, r, n) :
                 r \in SeqsUpTo(Objects(what) \cup {Malformed}, room),
                 n \in IF more THEN NextURLs ELSE {""}}

\* a page of results has been received and understood
IsPage(resp) == resp.status = StatusOK /\ resp.decodable

\* the bounds of the environment of the run, and what it has used of them.
\* With forever the server is not held to maxExtra, and what is kept of a
\* chain is its latest request and its latest response, without the time.
NoRun(maxExtra, maxItems) ==
    [maxExtra |-> maxExtra, maxItems |-> maxItems, forever |-> FALSE,
     served |-> 0, extras |-> 0, pages |-> 0, chains |-> <<>>]

\* the history with one more entry
Keep(history, x) == IF run.forever THEN <<x>> ELSE Append(history, x)

\* a count of the run with n more
Count(count, n) == IF run.forever THEN count ELSE count + n

\* client.Do(req): the request leaves
Send ==
    /\ mf.state = "send"
    /\ requests' = Keep(requests, [what |-> mf.what, url |-> mf.nextURL, at |-> clock])
    /\ mf' = [mf EXCEPT !.state = "wait"]
    /\ run' = IF requests = <<>>
              THEN [run EXCEPT !.chains = Append(@, [what |-> mf.what, complete |-> FALSE])]
              ELSE run
    /\ UNCHANGED <<pc, gb, guideBookRequestCounter, clock, responses, err, watson, output>>

\* client.Do returns and the rest of the loop body runs
Receive ==
    /\ mf.state = "wait"
    /\ \E resp \in ServerResponses(mf.what) :
         LET h == HandleResponse(mf, resp, guideBookRequestCounter)
         IN  /\ responses' = Keep(responses, resp)
             /\ mf' = h.mf
             /\ guideBookRequestCounter' = h.counter
             /\ clock' = Count(clock, h.slept)
             /\ run' = [run EXCEPT
                          !.served = @ + Len(resp.results),
                          !.extras = Count(@, IF AsksForMore(resp) THEN 1 ELSE 0),
                          !.pages = Count(@, IF IsPage(resp) THEN 1 ELSE 0),
                          !.chains[Len(run.chains)].complete = IsPage(resp) /\ resp.next = ""]
    /\ UNCHANGED <<pc, gb, requests, err, watson, output>>


(***************************************************************************)
(* The decoders: json.Decode of multiFetch's buffer into typed records.    *)
(* A field of the wrong type makes Decode return an error after it has     *)
(* decoded what it could: the offending object keeps its zero value.       *)
(***************************************************************************)
EmptyStamp == Stamp(0 - 1, <<>>, "")

Zero(what) ==
    CASE what = "sessions" ->
           [ID |-> 0, Name |-> "", Description |-> "",
            StartTime |-> EmptyStamp, EndTime |-> EmptyStamp,
            Locations |-> <<>>, ScheduleTracks |-> <<>>]
      [] what = "locations" -> [ID |-> 0, Name |-> ""]
      [] what = "schedule-tracks" -> [ID |-> 0, Name |-> <<>>]
      [] what = "custom-lists" -> [ID |-> 0, Name |-> "", Items |-> <<>>]
      [] what = "custom-list-items" -> [ID |-> 0, Name |-> "", CustomLists |-> <<>>]
      [] what = "links" -> CatLink("", 0, "", 0)

Decode(what, buf) ==
    [ok    |-> buf.null \/ Malformed \notin Range(buf.array),
     value |-> IF buf.null THEN <<>>
               ELSE [i \in DOMAIN buf.array |->
                       IF buf.array[i] = Malformed THEN Zero(what) ELSE buf.array[i]]]

\* what a Fetch method has once its multiFetch call has returned
Fetched(m) ==
    IF m.state = "failed"
    THEN [ok |-> FALSE, err |-> Wrap("failed to fetch results", m.err), value |-> <<>>,
          decoded |-> FALSE]
    ELSE LET d == Decode(m.what, m.buf)
         IN  [ok |-> d.ok,
              err |-> IF d.ok THEN NoErr
                      ELSE Errorf("failed to decode guidebook response", "", 0, ""),
              value |-> d.value, decoded |-> TRUE]

\* for _, v := range all { m[v.ID] = v.Name }
RECURSIVE NameMap(_, _)
NameMap(all, m) ==
    IF all = <<>> THEN m ELSE NameMap(Tail(all), Put(m, Head(all).ID, Head(all).Name))

\* for _, v := range all { m[v.ID] = v }
RECURSIVE ByID(_, _)
ByID(all, m) ==
    IF all = <<>> THEN m ELSE ByID(Tail(all), Put(m, Head(all).ID, Head(all)))

\* AddMember without the assignment Lists[w] = list
AddMemberNoStore(lists, id, customLists) == lists

\* for _, w := range li.CustomLists { list := Lists[w]; list.Items = append(list.Items, id); Lists[w] = list }
RECURSIVE AddMember(_, _, _)
AddMember(lists, id, customLists) ==
    IF customLists = <<>> THEN lists
    ELSE LET w    == Head(customLists)
             list == Get(lists, w, Zero("custom-lists"))
         IN  AddMember(Put(lists, w, [list EXCEPT !.Items = Append(@, id)]),
                       id, Tail(customLists))

\* for id, li := range ListItems { ... }, the map visited in the given order
RECURSIVE InvertMembership(_, _, _)
InvertMembership(lists, listItems, order) ==
    IF order = <<>> THEN lists
    ELSE InvertMembership(AddMember(lists, Head(order), listItems[Head(order)].CustomLists),
                          listItems, Tail(order))

\* PartitionLink with the other-links list replaced instead of appended to
PartitionLinkReplace(links, w) ==
    IF w.SourceType = SESSION_SOURCE_TYPE
    THEN LET list == Get(links.SessionLinks, w.SourceID,
                         [SessionID |-> w.SourceID, TargetIDs |-> EmptyMap])
             new  == [list EXCEPT !.TargetIDs =
                         Put(@, w.TargetID, [TargetType |-> w.TargetType, TargetID |-> w.TargetID])]
         IN  [links EXCEPT !.SessionLinks = Put(@, w.SourceID, new)]
    ELSE [links EXCEPT !.OtherLinks = Put(@, w.SourceID, <<w>>)]

\* PartitionLink with a target id that is already linked left as it is
PartitionLinkFirstWins(links, w) ==
    IF w.SourceType = SESSION_SOURCE_TYPE
    THEN LET list == Get(links.SessionLinks, w.SourceID,
                         [SessionID |-> w.SourceID, TargetIDs |-> EmptyMap])
             new  == IF Has(list.TargetIDs, w.TargetID) THEN list
                     ELSE [list EXCEPT !.TargetIDs =
                             Put(@, w.TargetID,
                                 [TargetType |-> w.TargetType, TargetID |-> w.TargetID])]
         IN  [links EXCEPT !.SessionLinks = Put(@, w.SourceID, new)]
    ELSE LET list == Get(links.OtherLinks, w.SourceID, <<>>)
         IN  [links EXCEPT !.OtherLinks = Put(@, w.SourceID, Append(list, w))]

\* the body of the loop of FetchSessionLinks for one link relation
PartitionLink(links, w) ==
    IF w.SourceType = SESSION_SOURCE_TYPE
    THEN LET list == Get(links.SessionLinks, w.SourceID,
                         [SessionID |-> w.SourceID, TargetIDs |-> EmptyMap])
             new  == [list EXCEPT !.TargetIDs =
                         Put(@, w.TargetID, [TargetType |-> w.TargetType, TargetID |-> w.TargetID])]
         IN  [links EXCEPT !.SessionLinks = Put(@, w.SourceID, new)]
    ELSE LET list == Get(links.OtherLinks, w.SourceID, <<>>)
         IN  [links EXCEPT !.OtherLinks = Put(@, w.SourceID, Append(list, w))]

RECURSIVE PartitionLinks(_, _)
PartitionLinks(links, listCats) ==
    IF listCats = <<>> THEN links
    ELSE PartitionLinks(PartitionLink(links, Head(listCats)), Tail(listCats))

\* ResolveGuests with the members that are not list items left out
RECURSIVE ResolveGuestsKnownOnly(_, _, _)
ResolveGuestsKnownOnly(ids, listItems, m) ==
    IF ids = <<>> THEN m
    ELSE ResolveGuestsKnownOnly(Tail(ids), listItems,
                                IF Has(listItems, Head(ids))
                                THEN Put(m, Head(ids), listItems[Head(ids)].Name)
                                ELSE m)

\* for _, goh := range Lists[GUESTS_OF_HONOR_ID].Items { GuestsOfHonor[goh] = ListItems[goh].Name }
RECURSIVE ResolveGuests(_, _, _)
ResolveGuests(ids, listItems, m) ==
    IF ids = <<>> THEN m
    ELSE ResolveGuests(Tail(ids), listItems,
                       Put(m, Head(ids), Get(listItems, Head(ids), Zero("custom-list-items")).Name))


(***************************************************************************)
(* loadGuidebook and the Fetch methods.  pc names the collection whose     *)
(* chain is being fetched, then "guests", "loaded" or "failed".            *)
(***************************************************************************)
EmptyGuideBook ==
    [Sessions |-> <<>>, Locations |-> EmptyMap, Tracks |-> EmptyMap, Lists |-> EmptyMap,
     ListItems |-> EmptyMap, SessionLinks |-> EmptyMap, OtherLinks |-> EmptyMap,
     GuestsOfHonor |-> EmptyMap]

FetchSteps == Range(Collections)

\* the message loadGuidebook wraps a step's error in
StepMessage(step) ==
    CASE step = "sessions" -> "failed to load sessions from GuideBook"
      [] step = "locations" -> "failed to load session locations from GuideBook"
      [] step = "schedule-tracks" -> "failed to load schedule tracks from GuideBook"
      [] step \in {"custom-lists", "custom-list-items"} ->
           "failed to load lists and listitems from GuideBook"
      [] step = "links" -> "failed to load session links from GuideBook"

\* a Fetch method calls multiFetch
Call ==
    /\ pc \in FetchSteps
    /\ mf.state = "idle"
    /\ mf' = MfStart(pc)
    /\ requests' = <<>>
    /\ responses' = <<>>
    /\ clock' = 0
    /\ UNCHANGED <<pc, gb, guideBookRequestCounter, run, err, watson, output>>

Returned == mf.state \in {"ok", "failed"}

\* StepEnds with the error of the step dropped
StepEndsAnyway(step, ok, e, next) ==
    /\ mf' = MfIdle
    /\ pc' = next
    /\ err' = err
    /\ UNCHANGED <<guideBookRequestCounter, clock, requests, responses, run, watson, output>>

\* the step ends: loadGuidebook goes on with the next one, or returns the error
StepEnds(step, ok, e, next) ==
    /\ mf' = MfIdle
    /\ pc' = IF ok THEN next ELSE "failed"
    /\ err' = IF ok THEN err ELSE Wrap(StepMessage(step), e)
    /\ requests' = IF ok THEN requests ELSE <<>>
    /\ responses' = IF ok THEN responses ELSE <<>>
    /\ clock' = IF ok THEN clock ELSE 0
    /\ UNCHANGED <<guideBookRequestCounter, run, watson, output>>

FetchSessions ==
    /\ pc = "sessions" /\ Returned
    /\ LET f == Fetched(mf)
       IN  /\ gb' = IF f.decoded THEN [gb EXCEPT !.Sessions = f.value] ELSE gb
           /\ StepEnds("sessions", f.ok, f.err, "locations")

FetchLocations ==
    /\ pc = "locations" /\ Returned
    /\ LET f == Fetched(mf)
       IN  /\ gb' = IF f.ok THEN [gb EXCEPT !.Locations = NameMap(f.value, EmptyMap)] ELSE gb
           /\ StepEnds("locations", f.ok, f.err, "schedule-tracks")

FetchTracks ==
    /\ pc = "schedule-tracks" /\ Returned
    /\ LET f == Fetched(mf)
       IN  /\ gb' = IF f.ok THEN [gb EXCEPT !.Tracks = NameMap(f.value, EmptyMap)] ELSE gb
           /\ StepEnds("schedule-tracks", f.ok, f.err, "custom-lists")

\* FetchLists up to its second multiFetch call
FetchListsLists ==
    /\ pc = "custom-lists" /\ Returned
    /\ LET f == Fetched(mf)
       IN  /\ gb' = IF f.ok THEN [gb EXCEPT !.Lists = ByID(f.value, EmptyMap)] ELSE gb
           /\ StepEnds("custom-lists", f.ok, f.err, "custom-list-items")

\* FetchLists from the return of its second multiFetch call
FetchListsItems ==
    /\ pc = "custom-list-items" /\ Returned
    /\ LET f == Fetched(mf)
           listItems == ByID(f.value, EmptyMap)
       IN  /\ IF f.ok
              THEN \E order \in Orders(DOMAIN listItems) :
                      gb' = [gb EXCEPT !.ListItems = listItems,
                                       !.Lists = InvertMembership(@, listItems, order)]
              ELSE gb' = gb
           /\ StepEnds("custom-list-items", f.ok, f.err, "links")

FetchSessionLinks ==
    /\ pc = "links" /\ Returned
    /\ LET f == Fetched(mf)
           parts == PartitionLinks([SessionLinks |-> EmptyMap, OtherLinks |-> EmptyMap], f.value)
       IN  /\ gb' = IF f.ok
                    THEN [gb EXCEPT !.SessionLinks = parts.SessionLinks,
                                    !.OtherLinks = parts.OtherLinks]
                    ELSE gb
           /\ StepEnds("links", f.ok, f.err, "guests")

\* the end of loadGuidebook
GuestsOfHonor ==
    /\ pc = "guests"
    /\ gb' = [gb EXCEPT !.GuestsOfHonor =
                ResolveGuests(Get(gb.Lists, GUESTS_OF_HONOR_ID, Zero("custom-lists")).Items,
                              gb.ListItems, EmptyMap)]
    /\ pc' = "loaded"
    /\ requests' = <<>>
    /\ responses' = <<>>
    /\ clock' = 0
    /\ UNCHANGED <<mf, guideBookRequestCounter, run, err, watson, output>>


(***************************************************************************)
(* Timestamps.  An instant is kept in milliseconds of the day.             *)
(***************************************************************************)
\* the fractional digits as nanoseconds: the first nine count
RECURSIVE FracNanos(_, _)
FracNanos(frac, unit) ==
    IF frac = <<>> \/ unit = 0 THEN 0
    ELSE Head(frac) * unit + FracNanos(Tail(frac), unit \div 10)

\* time.Parse(GUIDEBOOK_TIME_FORMAT, s): the layout ends in the literal text
\* +0000, and the fractional second may be absent or have any number of digits
ParseTime(s) ==
    [ok   |-> s.sec >= 0 /\ s.zone = "+0000",
     sec  |-> s.sec,
     nsec |-> FracNanos(s.frac, 100000000)]

\* ASCII codes of the characters a formatted time is made of
Chr(d) == 48 + d
Colon == 58
Dot == 46
Zed == 90

TwoDigits(n) == <<Chr(n \div 10), Chr(n % 10)>>

\* the fractional second of the layout .999: at most three digits, the
\* trailing zeros dropped, and nothing at all when it is zero
FormatFrac(ms) ==
    IF ms = 0 THEN <<>>
    ELSE IF ms % 100 = 0 THEN <<Dot, Chr(ms \div 100)>>
    ELSE IF ms % 10 = 0 THEN <<Dot, Chr(ms \div 100), Chr((ms \div 10) % 10)>>
    ELSE <<Dot, Chr(ms \div 100), Chr((ms \div 10) % 10), Chr(ms % 10)>>

\* t.Format(WATSON_TIME_FORMAT) of a UTC instant, from the hour on (the date
\* before it is the same text for every instant of the day); the layout
\* .999 cuts the fractional second to milliseconds
FormatTime(t) ==
    TwoDigits(t.sec \div 3600) \o <<Colon>> \o TwoDigits((t.sec \div 60) % 60) \o <<Colon>>
        \o TwoDigits(t.sec % 60) \o FormatFrac(t.nsec \div 1000000) \o <<Zed>>

\* a < b for Go strings
RECURSIVE StrLess(_, _)
StrLess(a, b) ==
    IF b = <<>> THEN FALSE
    ELSE IF a = <<>> THEN TRUE
    ELSE IF Head(a) # Head(b) THEN Head(a) < Head(b)
    ELSE StrLess(Tail(a), Tail(b))

\* Go's integer division, which truncates towards zero
Quo(a, b) == IF a >= 0 THEN a \div b ELSE 0 - ((0 - a) \div b)

\* finish.Sub(start) in whole seconds, the fraction cut towards zero
WholeSeconds(start, finish) ==
    LET dsec == finish.sec - start.sec
        dns  == finish.nsec - start.nsec
    IN  IF dsec > 0 /\ dns < 0 THEN dsec - 1
        ELSE IF dsec < 0 /\ dns > 0 THEN dsec + 1
        ELSE dsec

MinuteSeconds == 60

\* DurationMinutes rounded to the nearest minute
DurationMinutesRounded(start, finish) ==
    Quo(WholeSeconds(start, finish) + 30, MinuteSeconds)

\* int(finish.Sub(start) / time.Minute)
DurationMinutes(start, finish) == Quo(WholeSeconds(start, finish), MinuteSeconds)

(***************************************************************************)
(* Tags.                                                                   *)
(***************************************************************************)
UpperCase == <<"A", "B", "C", "D", "E", "F", "G", "H", "I", "J", "K", "L", "M",
               "N", "O", "P", "Q", "R", "S", "T", "U", "V", "W", "X", "Y", "Z">>

LowerCase == <<"a", "b", "c", "d", "e", "f", "g", "h", "i", "j", "k", "l", "m",
               "n", "o", "p", "q", "r", "s", "t", "u", "v", "w", "x", "y", "z">>

ToLower(c) ==
    IF c \in Range(UpperCase)
    THEN LowerCase[CHOOSE i \in DOMAIN UpperCase : UpperCase[i] = c]
    ELSE c

\* the characters the pattern [^a-zA-Z0-9_] does not match
AlphaNumeric == Range(UpperCase) \cup Range(LowerCase) \cup Digits \cup {"_"}

\* TagValue without the replacement of the spaces
RECURSIVE TagValueNoSpaces(_)
TagValueNoSpaces(value) ==
    IF value = <<>> THEN <<>>
    ELSE (IF Head(value) \in AlphaNumeric THEN <<ToLower(Head(value))>> ELSE <<>>)
         \o TagValueNoSpaces(Tail(value))

\* strings.ToLower(notAlphaNumeric.ReplaceAllLiteralString(strings.ReplaceAll(value, " ", "_"), ""))
RECURSIVE TagValue(_)
TagValue(value) ==
    IF value = <<>> THEN <<>>
    ELSE LET c == IF Head(value) = " " THEN "_" ELSE Head(value)
         IN  (IF c \in AlphaNumeric THEN <<ToLower(c)>> ELSE <<>>) \o TagValue(Tail(value))

makeTag(label, value, category) ==
    [Label |-> label, Value |-> TagValue(value), Category |-> category]

TrackPrefix == <<"t", "r", "a", "c", "k", "_">>

InPersonTag ==
    makeTag("In Person Session",
            <<"s", "e", "s", "s", "i", "o", "n", "_", "i", "n", "_", "p", "e", "r", "s", "o", "n">>,
            "Environment")

VirtualTag ==
    makeTag("Virtual Session",
            <<"s", "e", "s", "s", "i", "o", "n", "_", "v", "i", "r", "t", "u", "a", "l">>,
            "Environment")

TrackName(g, st) == Get(g.Tracks, st, <<>>)

\* BuildSessionTags with the Environment tags put before the Track tags
BuildSessionTagsEnvironmentFirst(ws, gs, g) ==
    LET trackTags == [i \in DOMAIN gs.ScheduleTracks |->
                        makeTag(TrackName(g, gs.ScheduleTracks[i]),
                                TrackPrefix \o TrackName(g, gs.ScheduleTracks[i]), "Track")]
        virtual   == \/ ws.virtual
                     \/ \E i \in DOMAIN gs.ScheduleTracks :
                           TrackName(g, gs.ScheduleTracks[i]) = Virtual
                     \/ \E i \in DOMAIN gs.Locations :
                           gs.Locations[i] \in {VIRTUAL_ROOM_1, VIRTUAL_ROOM_2}
        in_person == \/ ws.in_person
                     \/ \E i \in DOMAIN gs.Locations :
                           gs.Locations[i] \notin {VIRTUAL_ROOM_1, VIRTUAL_ROOM_2}
    IN  [ws EXCEPT !.virtual = virtual, !.in_person = in_person,
                   !.Tags = (IF in_person THEN <<InPersonTag>> ELSE <<>>)
                            \o (IF virtual THEN <<VirtualTag>> ELSE <<>>) \o trackTags]

\* BuildSessionTags with a session in a virtual room never taken as in person
BuildSessionTagsExclusive(ws, gs, g) ==
    LET trackTags == [i \in DOMAIN gs.ScheduleTracks |->
                        makeTag(TrackName(g, gs.ScheduleTracks[i]),
                                TrackPrefix \o TrackName(g, gs.ScheduleTracks[i]), "Track")]
        virtual   == \/ ws.virtual
                     \/ \E i \in DOMAIN gs.ScheduleTracks :
                           TrackName(g, gs.ScheduleTracks[i]) = Virtual
                     \/ \E i \in DOMAIN gs.Locations :
                           gs.Locations[i] \in {VIRTUAL_ROOM_1, VIRTUAL_ROOM_2}
        in_person == \/ ws.in_person
                     \/ /\ gs.Locations # <<>>
                        /\ \A i \in DOMAIN gs.Locations :
                              gs.Locations[i] \notin {VIRTUAL_ROOM_1, VIRTUAL_ROOM_2}
    IN  [ws EXCEPT !.virtual = virtual, !.in_person = in_person,
                   !.Tags = trackTags \o (IF in_person THEN <<InPersonTag>> ELSE <<>>)
                                      \o (IF virtual THEN <<VirtualTag>> ELSE <<>>)]

\* ws.BuildSessionTags(gs, gb)
BuildSessionTags(ws, gs, g) ==
    LET trackTags == [i \in DOMAIN gs.ScheduleTracks |->
                        makeTag(TrackName(g, gs.ScheduleTracks[i]),
                                TrackPrefix \o TrackName(g, gs.ScheduleTracks[i]), "Track")]
        virtual   == \/ ws.virtual
                     \/ \E i \in DOMAIN gs.ScheduleTracks :
                           TrackName(g, gs.ScheduleTracks[i]) = Virtual
                     \/ \E i \in DOMAIN gs.Locations :
                           gs.Locations[i] \in {VIRTUAL_ROOM_1, VIRTUAL_ROOM_2}
        in_person == \/ ws.in_person
                     \/ \E i \in DOMAIN gs.Locations :
                           gs.Locations[i] \notin {VIRTUAL_ROOM_1, VIRTUAL_ROOM_2}
    IN  [ws EXCEPT !.virtual = virtual, !.in_person = in_person,
                   !.Tags = trackTags \o (IF in_person THEN <<InPersonTag>> ELSE <<>>)
                                      \o (IF virtual THEN <<VirtualTag>> ELSE <<>>)]

NoLink == [base |-> "", item_id |-> 0]

DeepLink(kind, id) == [base |-> kind, item_id |-> id]

\* BuildSessionLinks with the session link given to the sessions that are
\* not in person
BuildSessionLinksUnlessInPerson(ws) ==
    [ws EXCEPT !.Links =
        [Session |-> IF ~ws.in_person THEN DeepLink("session", ws.ID) ELSE NoLink,
         Chat    |-> DeepLink("chat", ws.ID)]]

\* ws.BuildSessionLinks(gs, gb): a deep link is kept as its base and its item_id
BuildSessionLinks(ws) ==
    [ws EXCEPT !.Links =
        [Session |-> IF ws.virtual THEN DeepLink("session", ws.ID) ELSE NoLink,
         Chat    |-> DeepLink("chat", ws.ID)]]


(***************************************************************************)
(* WatsonFromGuidebook                                                     *)
(***************************************************************************)
\* the target ids linked to a session, the keys of its TargetIDs map
LinkedIDs(g, id) ==
    IF Has(g.SessionLinks, id) THEN DOMAIN g.SessionLinks[id].TargetIDs ELSE {}

\* People with the role decided by the outer exists (the session has links)
\* instead of the inner one (the person is a guest of honor)
PeopleAllGuests(g, id, order) ==
    LET links   == g.SessionLinks[id].TargetIDs
        persons == SelectSeq(order, LAMBDA t : links[t].TargetType = GB_TARGET_TYPE_PERSON)
    IN  [i \in DOMAIN persons |->
           [ID   |-> links[persons[i]].TargetID,
            Name |-> Get(g.ListItems, links[persons[i]].TargetID, Zero("custom-list-items")).Name,
            Role |-> "Guest of Honor"]]

\* People without the test of the target type
PeopleOfAnyType(g, id, order) ==
    LET links == g.SessionLinks[id].TargetIDs
    IN  [i \in DOMAIN order |->
           [ID   |-> links[order[i]].TargetID,
            Name |-> Get(g.ListItems, links[order[i]].TargetID, Zero("custom-list-items")).Name,
            Role |-> IF Has(g.GuestsOfHonor, links[order[i]].TargetID)
                     THEN "Guest of Honor" ELSE ""]]

\* the people of a session, its TargetIDs map visited in the given order
People(g, id, order) ==
    LET links   == g.SessionLinks[id].TargetIDs
        persons == SelectSeq(order, LAMBDA t : links[t].TargetType = GB_TARGET_TYPE_PERSON)
    IN  [i \in DOMAIN persons |->
           [ID   |-> links[persons[i]].TargetID,
            Name |-> Get(g.ListItems, links[persons[i]].TargetID, Zero("custom-list-items")).Name,
            Role |-> IF Has(g.GuestsOfHonor, links[persons[i]].TargetID)
                     THEN "Guest of Honor" ELSE ""]]

\* LocationNames with the location ids that are unknown passed over
LocationNamesKnownOnly(g, gs) ==
    LET known == SelectSeq(gs.Locations, LAMBDA loc : Has(g.Locations, loc))
        names == [i \in DOMAIN known |-> g.Locations[known[i]]]
    IN  IF Len(names) = 0 THEN <<"Discord">> ELSE names

\* the names of the locations of a session
LocationNames(g, gs) ==
    LET names == [i \in DOMAIN gs.Locations |-> Get(g.Locations, gs.Locations[i], "")]
    IN  IF Len(names) = 0 THEN <<"Discord">> ELSE names

\* the body of the loop over gb.Sessions for one session whose timestamps parse
WatsonSession(g, gs, order) ==
    LET start   == ParseTime(gs.StartTime)
        finish  == ParseTime(gs.EndTime)
        session == [ID |-> gs.ID, Name |-> gs.Name, Description |-> gs.Description,
                    Locations |-> LocationNames(g, gs),
                    StartTime |-> FormatTime(start),
                    DurationMinutes |-> DurationMinutes(start, finish),
                    Tags |-> <<>>, Links |-> [Session |-> NoLink, Chat |-> NoLink],
                    People |-> IF Has(g.SessionLinks, gs.ID) THEN People(g, gs.ID, order)
                               ELSE <<>>,
                    in_person |-> FALSE, virtual |-> FALSE]
        tagged  == BuildSessionTags(session, gs, g)
    IN  BuildSessionLinks([tagged EXCEPT !.in_person = @ \/ ~tagged.virtual])

Parses(gs) == ParseTime(gs.StartTime).ok /\ ParseTime(gs.EndTime).ok

\* WatsonLoop with an error returned for a location id that is unknown
RECURSIVE WatsonLoopStrictLookup(_, _, _, _)
WatsonLoopStrictLookup(g, orders, i, built) ==
    IF i > Len(g.Sessions) THEN [ok |-> TRUE, sessions |-> built]
    ELSE IF ~Parses(g.Sessions[i]) THEN [ok |-> FALSE, sessions |-> built]
    ELSE IF \E k \in DOMAIN g.Sessions[i].Locations : ~Has(g.Locations, g.Sessions[i].Locations[k])
         THEN [ok |-> FALSE, sessions |-> built]
    ELSE WatsonLoopStrictLookup(g, orders, i + 1,
                                Append(built, WatsonSession(g, g.Sessions[i], orders[i])))

\* WatsonLoop with the sessions that have no location passed over
RECURSIVE WatsonLoopPlacedOnly(_, _, _, _)
WatsonLoopPlacedOnly(g, orders, i, built) ==
    IF i > Len(g.Sessions) THEN [ok |-> TRUE, sessions |-> built]
    ELSE IF ~Parses(g.Sessions[i]) THEN [ok |-> FALSE, sessions |-> built]
    ELSE IF g.Sessions[i].Locations = <<>> THEN WatsonLoopPlacedOnly(g, orders, i + 1, built)
    ELSE WatsonLoopPlacedOnly(g, orders, i + 1,
                              Append(built, WatsonSession(g, g.Sessions[i], orders[i])))

\* the loop over gb.Sessions from session i on: it returns what it has built
\* so far, with the error, at the first timestamp that does not parse
RECURSIVE WatsonLoop(_, _, _, _)
WatsonLoop(g, orders, i, built) ==
    IF i > Len(g.Sessions) THEN [ok |-> TRUE, sessions |-> built]
    ELSE IF ~Parses(g.Sessions[i]) THEN [ok |-> FALSE, sessions |-> built]
    ELSE WatsonLoop(g, orders, i + 1, Append(built, WatsonSession(g, g.Sessions[i], orders[i])))

\* the orders in which the range loops over the TargetIDs maps may run
PeopleOrders(g) ==
    LET ids(i) == LinkedIDs(g, g.Sessions[i].ID)
        all    == UNION {Orders(ids(i)) : i \in DOMAIN g.Sessions}
    IN  {o \in [DOMAIN g.Sessions -> all] : \A i \in DOMAIN g.Sessions : o[i] \in Orders(ids(i))}

\* SortedByStart without the sort
SortedByStartKept(w) == {w}

\* the outcomes of sort.Slice by StartTime, which is not a stable sort
SortedByStart(w) ==
    {[i \in DOMAIN w |-> w[p[i]]] : p \in
        {q \in Orders(DOMAIN w) :
            \A i, j \in DOMAIN w : i < j => ~StrLess(w[q[j]].StartTime, w[q[i]].StartTime)}}

\* the results WatsonFromGuidebook(gb) may return
WatsonFromGuidebook(g) ==
    UNION {LET r == WatsonLoop(g, o, 1, <<>>)
           IN  IF r.ok THEN {[ok |-> TRUE, sessions |-> s] : s \in SortedByStart(r.sessions)}
               ELSE {r} : o \in PeopleOrders(g)}

(***************************************************************************)
(* main                                                                    *)
(***************************************************************************)
NotCalled == [called |-> FALSE, arg |-> EmptyGuideBook, ok |-> FALSE, sessions |-> <<>>]

NoOutput == [dump |-> FALSE, files |-> {}, schedule |-> <<>>]

\* MainLoadFailed with the error logged and the run going on
MainLoadFailedGoesOn ==
    /\ pc = "failed"
    /\ pc' = "loaded"
    /\ UNCHANGED <<mf, gb, guideBookRequestCounter, clock, requests, responses, run, err, watson, output>>

\* log.Fatal(err.Error()) after loadGuidebook
MainLoadFailed ==
    /\ pc = "failed"
    /\ pc' = "fatal"
    /\ UNCHANGED <<mf, gb, guideBookRequestCounter, clock, requests, responses, run, err, watson, output>>

\* config.Dump is set: DumpJSON(os.Stdout, guidebook)
MainDump ==
    /\ pc = "loaded"
    /\ output' = [output EXCEPT !.dump = TRUE]
    /\ pc' = "done"
    /\ UNCHANGED <<mf, gb, guideBookRequestCounter, clock, requests, responses, run, err, watson>>

\* MainTransform with every location id looked up entered in the map
MainTransformInserting ==
    /\ pc = "loaded"
    /\ \E r \in WatsonFromGuidebook(gb) :
         /\ watson' = [called |-> TRUE, arg |-> gb, ok |-> r.ok, sessions |-> r.sessions]
         /\ pc' = IF r.ok THEN "transformed" ELSE "fatal"
         /\ err' = IF r.ok THEN err ELSE Errorf("parsing time", "", 0, "")
    /\ gb' = [gb EXCEPT !.Locations =
                 [id \in DOMAIN @ \cup UNION {Range(gs.Locations) : gs \in Range(gb.Sessions)} |->
                    Get(gb.Locations, id, "")]]
    /\ UNCHANGED <<mf, guideBookRequestCounter, clock, requests, responses, run, output>>

\* config.Dump is not set: the transform, and log.Fatal if it fails
MainTransform ==
    /\ pc = "loaded"
    /\ \E r \in WatsonFromGuidebook(gb) :
         /\ watson' = [called |-> TRUE, arg |-> gb, ok |-> r.ok, sessions |-> r.sessions]
         /\ pc' = IF r.ok THEN "transformed" ELSE "fatal"
         /\ err' = IF r.ok THEN err ELSE Errorf("parsing time", "", 0, "")
    /\ UNCHANGED <<mf, gb, guideBookRequestCounter, clock, requests, responses, run, output>>

\* the files main writes
MainWrite ==
    /\ pc = "transformed"
    /\ output' = [output EXCEPT !.files = {"schedule", "streaming"},
                                !.schedule = watson.sessions]
    /\ pc' = "done"
    /\ UNCHANGED <<mf, gb, guideBookRequestCounter, clock, requests, responses, run, err, watson>>

(***************************************************************************)
(* The run.                                                                *)
(***************************************************************************)
StartWith(r) ==
    /\ pc = "sessions"
    /\ mf = MfIdle
    /\ gb = EmptyGuideBook
    /\ guideBookRequestCounter = 0
    /\ clock = 0
    /\ requests = <<>>
    /\ responses = <<>>
    /\ run = r
    /\ err = NoErr
    /\ watson = NotCalled
    /\ output = NoOutput

Start(maxExtra, maxItems) == StartWith(NoRun(maxExtra, maxItems))

Init == Start(RunExtra, RunItems)

Next ==
    \/ Call
    \/ Send
    \/ Receive
    \/ FetchSessions
    \/ FetchLocations
    \/ FetchTracks
    \/ FetchListsLists
    \/ FetchListsItems
    \/ FetchSessionLinks
    \/ GuestsOfHonor
    \/ MainLoadFailed
    \/ MainDump
    \/ MainTransform
    \/ MainWrite

Spec == Init /\ [][Next]_vars

\* a whole run against a server that may ask for more without end.  The
\* program is one thread that runs on: a sleep ends, and client.Do returns
\* with the server's answer or with an error.
InitForever == StartWith([NoRun(0, ForeverItems) EXCEPT !.forever = TRUE])

SpecForever == InitForever /\ [][Next]_vars /\ WF_vars(Next)

\* a run up to the end of FetchSessions, its first step
InitFetch == Start(ChainExtra, ChainItems)

NextFetch ==
    \/ pc = "sessions" /\ Call
    \/ pc = "sessions" /\ Send
    \/ pc = "sessions" /\ Receive
    \/ FetchSessions

SpecFetch == InitFetch /\ [][NextFetch]_vars


(***************************************************************************)
(* The transform on its own: main from the return of loadGuidebook, on     *)
(* the snapshots loadGuidebook assembles from the API results below.       *)
(***************************************************************************)
\* the sessions the API may hold: the two above, and sessions without
\* location, in several rooms, on a track named virtual, ending before
\* they start, and with an end time that does not parse
TransformSessions ==
    SessionObjects \cup
    { [ID |-> 2, Name |-> "Panel", Description |-> "<p>Panel</p>",
       StartTime |-> Stamp(32400, <<0, 0, 0, 5>>, "+0000"),
       EndTime |-> Stamp(32460, <<>>, "+0000"),
       Locations |-> <<>>, ScheduleTracks |-> <<>>],
      [ID |-> 4, Name |-> "Workshop", Description |-> "",
       StartTime |-> Stamp(36000, <<5>>, "+0000"),
       EndTime |-> Stamp(35910, <<>>, "+0000"),
       Locations |-> <<7, VIRTUAL_ROOM_2, 8>>, ScheduleTracks |-> <<9>>],
      [ID |-> 5, Name |-> "Stream", Description |-> "<p>Welcome</p>",
       StartTime |-> Stamp(39600, <<>>, "+0000"),
       EndTime |-> Stamp(43200, <<>>, "+0000"),
       Locations |-> <<7>>, ScheduleTracks |-> <<2, 1>>],
      [ID |-> 6, Name |-> "Late", Description |-> "",
       StartTime |-> Stamp(39600, <<>>, "+0000"),
       EndTime |-> Stamp(43200, <<>>, ""),
       Locations |-> <<7>>, ScheduleTracks |-> <<>>] }

\* the sessions of one run: at most MaxSessions of them, in any order
MaxSessions == 2

TransformTracks == <<[ID |-> 1, Name |-> ArtAndCraft], [ID |-> 2, Name |-> Virtual]>>

TransformLists ==
    <<[ID |-> 10, Name |-> "Sponsors", Items |-> <<>>],
      [ID |-> GUESTS_OF_HONOR_ID, Name |-> "Guests of Honor", Items |-> <<5>>]>>

TransformItems ==
    <<[ID |-> 1, Name |-> "Ann", CustomLists |-> <<10>>],
      [ID |-> 2, Name |-> "Bob", CustomLists |-> <<10, GUESTS_OF_HONOR_ID>>]>>

TransformLinks ==
    <<CatLink(SESSION_SOURCE_TYPE, 1, GB_TARGET_TYPE_PERSON, 1),
      CatLink(SESSION_SOURCE_TYPE, 1, GB_TARGET_TYPE_PERSON, 2),
      CatLink(SESSION_SOURCE_TYPE, 1, GB_TARGET_TYPE_STREAM, 3),
      CatLink(SESSION_SOURCE_TYPE, 4, GB_TARGET_TYPE_PERSON, 6)>>

\* the elements of all that keep marks, in the order of all
Pick(all, keep) ==
    LET F[i \in 0..Len(all)] ==
            IF i = 0 THEN <<>>
            ELSE IF keep[i] THEN Append(F[i - 1], all[i]) ELSE F[i - 1]
    IN  F[Len(all)]

\* the results of the six chains of a run
APIResults ==
    [sessions  : SeqsUpTo(TransformSessions, MaxSessions),
     locations : {<<>>, <<[ID |-> 7, Name |-> "Room X"]>>},
     tracks    : {<<>>, TransformTracks},
     lists     : {<<>>, TransformLists},
     items     : {<<>>, TransformItems},
     links     : {Pick(TransformLinks, keep) : keep \in [DOMAIN TransformLinks -> BOOLEAN]}]

\* the snapshot loadGuidebook returns on these results, the list items
\* visited in the given order
Assembled(api, order) ==
    LET listItems == ByID(api.items, EmptyMap)
        lists     == InvertMembership(ByID(api.lists, EmptyMap), listItems, order)
        parts     == PartitionLinks([SessionLinks |-> EmptyMap, OtherLinks |-> EmptyMap],
                                    api.links)
    IN  [Sessions      |-> api.sessions,
         Locations     |-> NameMap(api.locations, EmptyMap),
         Tracks        |-> NameMap(api.tracks, EmptyMap),
         Lists         |-> lists,
         ListItems     |-> listItems,
         SessionLinks  |-> parts.SessionLinks,
         OtherLinks    |-> parts.OtherLinks,
         GuestsOfHonor |-> ResolveGuests(Get(lists, GUESTS_OF_HONOR_ID, Zero("custom-lists")).Items,
                                         listItems, EmptyMap)]

\* the run when every chain was one page
LoadedRun(api) ==
    LET items == Len(api.sessions) + Len(api.locations) + Len(api.tracks)
                 + Len(api.lists) + Len(api.items) + Len(api.links)
    IN  [NoRun(0, items) EXCEPT
            !.served = items,
            !.pages  = Len(Collections),
            !.chains = [i \in DOMAIN Collections |-> [what |-> Collections[i], complete |-> TRUE]]]

\* loadGuidebook has just returned its snapshot to main
InitWatson ==
    /\ pc = "loaded"
    /\ mf = MfIdle
    /\ \E api \in APIResults :
          /\ \E order \in Orders({x.ID : x \in Range(api.items)}) : gb = Assembled(api, order)
          /\ run = LoadedRun(api)
    /\ guideBookRequestCounter = Len(Collections)
    /\ clock = 0
    /\ requests = <<>>
    /\ responses = <<>>
    /\ err = NoErr
    /\ watson = NotCalled
    /\ output = NoOutput

NextWatson ==
    \/ MainDump
    \/ MainTransform
    \/ MainWrite

SpecWatson == InitWatson /\ [][NextWatson]_vars


(***************************************************************************)
(* Properties.                                                             *)
(***************************************************************************)
\* the results lists of the pages received by the latest call, in order
PagesReceived == [i \in DOMAIN responses |-> responses[i].results]

\* the seconds a Retry-After header asks for, when it is a positive integer
PositiveSeconds(header) ==
    IF header = <<"1">> THEN 1 ELSE IF header = <<"2">> THEN 2 ELSE 0

IsRetryable(resp) ==
    resp.status = StatusTooManyRequests /\ PositiveSeconds(resp.retryAfter) > 0

Last(seq) == seq[Len(seq)]

SetMax(S) == CHOOSE x \in S : \A y \in S : y <= x

\* C1: when every request of a chain is answered 200, the requests follow
\* the next links from the initial URL up to the page without next, and
\* multiFetch returns the concatenation of the pages' results, in page order
\* and in within-page order.
C1_Concatenation ==
    (mf.state = "ok" /\ \A i \in DOMAIN responses : responses[i].status = StatusOK) =>
        /\ Len(requests) = Len(responses)
        /\ requests[1].url = InitialURL(mf.what)
        /\ \A i \in DOMAIN requests : i > 1 => requests[i].url = responses[i - 1].next
        /\ Last(responses).next = ""
        /\ mf.buf.array = Flatten(PagesReceived)

\* a chain of two pages, each with results, three objects in all, has returned
C1_Witness ==
    /\ mf.state = "ok"
    /\ Len(responses) = 2
    /\ \A i \in DOMAIN responses : responses[i].status = StatusOK
    /\ responses[1].results # <<>>
    /\ responses[2].results # <<>>
    /\ Last(responses[1].results) # responses[2].results[1]
    /\ Len(mf.buf.array) = 3

\* C2: a 200 page without next is the last response of its call: no request
\* follows it and the call returns; the one empty page of an empty collection
\* costs one request and gives a buffer the decoder accepts as the empty list.
C2_StopsAtLastPage ==
    /\ \A i \in DOMAIN responses :
          (IsPage(responses[i]) /\ responses[i].next = "") =>
              /\ i = Len(requests)
              /\ i = Len(responses)
              /\ mf.state \in {"ok", "idle"}
    /\ (/\ mf.state = "ok"
        /\ IsPage(responses[1])
        /\ responses[1].results = <<>>
        /\ responses[1].next = "") =>
          /\ Len(requests) = 1
          /\ mf.buf.array = <<>>
          /\ Decode(mf.what, mf.buf).ok
          /\ Decode(mf.what, mf.buf).value = <<>>

\* the call for the custom lists has returned after one empty page
C2_Witness ==
    /\ mf.state = "ok"
    /\ mf.what = "custom-lists"
    /\ Len(requests) = 1
    /\ IsPage(responses[1])
    /\ responses[1].results = <<>>
    /\ responses[1].next = ""

\* C3: after a 429 with a positive Retry-After of n seconds the call is still
\* running, its next request goes to the same URL n + 1 seconds after the
\* request that was refused, and the results accumulated are those of the
\* pages received so far: nothing is dropped and the chain is not restarted.
C3_RetrySameURL ==
    /\ \A i \in DOMAIN responses :
          IsRetryable(responses[i]) =>
              /\ i = Len(responses) => mf.state \in {"send", "wait"}
              /\ i < Len(requests) =>
                    /\ requests[i + 1].url = requests[i].url
                    /\ requests[i + 1].at = requests[i].at + PositiveSeconds(responses[i].retryAfter) + 1
    /\ Len(requests) = Len(responses) + (IF mf.state = "wait" THEN 1 ELSE 0)
    /\ mf.state \in {"send", "wait", "ok"} => mf.allResults = Flatten(PagesReceived)

\* a page with results, then a 429 with Retry-After 2 on the next URL, then
\* the retried request, answered with the last page
C3_Witness ==
    /\ mf.state = "ok"
    /\ Len(responses) = 3
    /\ IsPage(responses[1]) /\ responses[1].results # <<>> /\ responses[1].next = "cursor"
    /\ responses[2].status = StatusTooManyRequests /\ responses[2].retryAfter = <<"2">>
    /\ IsPage(responses[3]) /\ responses[3].results # <<>>
    /\ requests[3].url = "cursor"
    /\ requests[3].at = requests[2].at + 3
    /\ Len(requests) = 3

\* C4: the request counter is the number of pages fetched successfully so
\* far in the run.
C4_CountsSuccessfulPages == guideBookRequestCounter = run.pages

\* C5: a response with a status other than 200 that is not a 429 with a
\* positive Retry-After ends the call at once: no request follows it, the call
\* has failed with an error that carries the status and the body, and nothing
\* was slept since the request; a request follows a response only when the
\* response is a 429 with a positive Retry-After or a page with a next.
C5_OnlyPositive429Retried ==
    /\ \A i \in DOMAIN responses :
          (responses[i].status \notin {0, StatusOK} /\ ~IsRetryable(responses[i])) =>
              /\ i = Len(requests)
              /\ i = Len(responses)
              /\ mf.state = "failed"
              /\ mf.err.status = responses[i].status
              /\ mf.err.body = responses[i].body
              /\ clock = requests[i].at
    /\ \A i \in DOMAIN responses :
          i < Len(requests) =>
              \/ IsRetryable(responses[i]) /\ requests[i + 1].url = requests[i].url
              \/ IsPage(responses[i]) /\ responses[i].next # ""
                    /\ requests[i + 1].url = responses[i].next

\* the second request of a chain was answered 429 with Retry-After -1
C5_Witness ==
    /\ mf.state = "failed"
    /\ Len(responses) = 2
    /\ responses[2].status = StatusTooManyRequests
    /\ responses[2].retryAfter = <<"-", "1">>


AllComplete(n) == \A i \in 1..n : run.chains[i].complete

\* C6: the chains are requested in the order of the collections, a chain is
\* started only when every chain before it has reached its page without
\* next, at most one request is outstanding, and the guests of honor are
\* resolved only when all six chains are complete.
C6_Sequential ==
    LET n == Len(run.chains)
    IN  /\ n <= Len(Collections)
        /\ \A i \in 1..n : run.chains[i].what = Collections[i]
        /\ AllComplete(n - 1)
        /\ Len(requests) - Len(responses) \in {0, 1}
        /\ (pc \in {"guests", "loaded", "transformed", "done"} \/ watson.called) =>
              n = Len(Collections) /\ AllComplete(n)
        /\ pc \in FetchSteps \cup {"guests", "failed"} => gb.GuestsOfHonor = EmptyMap

\* a run has ended after six chains, one of which took more than one request
C6_Witness ==
    /\ pc = "done"
    /\ Len(run.chains) = Len(Collections)
    /\ run.extras = 1
    /\ gb.GuestsOfHonor # EmptyMap

\* the step in progress has failed: its fetch, or the decoding of its buffer
StepFails ==
    /\ pc \in FetchSteps
    /\ \/ mf.state = "failed"
       \/ mf.state = "ok" /\ Malformed \in Range(Flatten(PagesReceived))

LoadFailed == pc = "failed" \/ (pc = "fatal" /\ ~watson.called)

\* C7: a step whose fetch or decode fails makes loadGuidebook return an
\* error that names the step; from then on no request is issued, the
\* transformer is not called and nothing is written: main only exits.
C7_FailureStops ==
    [][ /\ StepFails =>
              /\ pc' = "failed"
              /\ err'.chain # <<>>
              /\ err'.chain[1] = StepMessage(pc)
              /\ Last(run.chains).what = pc
              /\ run'.chains = run.chains
              /\ ~watson'.called
              /\ output' = NoOutput
        /\ LoadFailed =>
              /\ pc' = "fatal"
              /\ err' = err
              /\ run' = run
              /\ requests' = requests
              /\ gb' = gb
              /\ ~watson'.called
              /\ output' = NoOutput ]_vars

\* main has exited on the failure of the fifth step, with sessions loaded
C7_Witness ==
    /\ pc = "fatal"
    /\ ~watson.called
    /\ Len(run.chains) = 5
    /\ err.chain[1] = "failed to load lists and listitems from GuideBook"
    /\ gb.Sessions # <<>>
    /\ output = NoOutput

\* the ids of the list items that name list L in their CustomLists
MembersOf(listItems, L) ==
    {id \in DOMAIN listItems : L \in Range(listItems[id].CustomLists)}

\* C8: when FetchLists succeeds, the list items are those the API returned,
\* and every custom list the API returned without a direct listing has as
\* the set of its Items the ids of the list items that name it.
C8_MembershipInverted ==
    [][ (pc = "custom-list-items" /\ pc' = "links") =>
            /\ DOMAIN gb'.ListItems = {x.ID : x \in Range(Flatten(PagesReceived))}
            /\ \A id \in DOMAIN gb'.ListItems :
                  gb'.ListItems[id] \in Range(Flatten(PagesReceived))
            /\ \A L \in DOMAIN gb.Lists :
                  gb.Lists[L].Items = <<>> =>
                      Range(gb'.Lists[L].Items) = MembersOf(gb'.ListItems, L) ]_vars

\* FetchLists has ended with list 10, which had no direct listing, holding
\* the two items that name it
C8_Witness ==
    /\ pc = "links"
    /\ mf.state = "idle"
    /\ Has(gb.Lists, 10)
    /\ gb.Lists[10].Name = "Sponsors"
    /\ Range(gb.Lists[10].Items) = {1, 2}
    /\ DOMAIN gb.ListItems = {1, 2}

\* the link relations the API returned, when FetchSessionLinks has ended
LinksReturned == Flatten(PagesReceived)

FromSession(w) == w.SourceType = SESSION_SOURCE_TYPE

\* C9: after FetchSessionLinks the session links hold the edges whose source
\* is a session, under their source id and their target id, and only those;
\* the other links hold every other edge, under its source id, in input
\* order, and only those.
C9_Partition ==
    pc = "guests" =>
        LET input == LinksReturned
            S == gb.SessionLinks
            O == gb.OtherLinks
        IN  /\ DOMAIN S = {w.SourceID : w \in {x \in Range(input) : FromSession(x)}}
            /\ \A s \in DOMAIN S :
                  /\ S[s].SessionID = s
                  /\ DOMAIN S[s].TargetIDs =
                        {w.TargetID : w \in {x \in Range(input) : FromSession(x) /\ x.SourceID = s}}
            /\ DOMAIN O = {w.SourceID : w \in {x \in Range(input) : ~FromSession(x)}}
            /\ \A s \in DOMAIN O :
                  O[s] = SelectSeq(input, LAMBDA w : ~FromSession(w) /\ w.SourceID = s)

\* a session edge and two other edges of one source have been partitioned
C9_Witness ==
    /\ pc = "guests"
    /\ DOMAIN gb.SessionLinks # {}
    /\ \E s \in DOMAIN gb.OtherLinks :
          Len(gb.OtherLinks[s]) = 2 /\ gb.OtherLinks[s][1] # gb.OtherLinks[s][2]

\* the positions of the edges from session s to target t
EdgesAt(input, s, t) ==
    {i \in DOMAIN input : FromSession(input[i]) /\ input[i].SourceID = s /\ input[i].TargetID = t}

\* C10: after FetchSessionLinks, every pair of a session and a target id
\* that some edge joins has one entry, which holds the target type of the
\* last such edge in input order.
C10_LastWriteWins ==
    pc = "guests" =>
        LET input == LinksReturned
        IN  /\ \A i \in DOMAIN input :
                  FromSession(input[i]) =>
                      /\ Has(gb.SessionLinks, input[i].SourceID)
                      /\ Has(gb.SessionLinks[input[i].SourceID].TargetIDs, input[i].TargetID)
            /\ \A s \in DOMAIN gb.SessionLinks :
                  \A t \in DOMAIN gb.SessionLinks[s].TargetIDs :
                      /\ EdgesAt(input, s, t) # {}
                      /\ gb.SessionLinks[s].TargetIDs[t] =
                            [TargetType |-> input[SetMax(EdgesAt(input, s, t))].TargetType,
                             TargetID |-> t]

\* two edges from one session to one target id, of different target types,
\* the person first, have been recorded
C10_Witness ==
    /\ pc = "guests"
    /\ \E i, j \in DOMAIN LinksReturned :
          /\ i < j
          /\ FromSession(LinksReturned[i]) /\ FromSession(LinksReturned[j])
          /\ LinksReturned[i].SourceID = LinksReturned[j].SourceID
          /\ LinksReturned[i].TargetID = LinksReturned[j].TargetID
          /\ LinksReturned[i].TargetType = GB_TARGET_TYPE_PERSON
          /\ LinksReturned[j].TargetType = GB_TARGET_TYPE_STREAM

\* loadGuidebook has returned without error
Loaded == pc \in {"loaded", "transformed", "done"} \/ watson.called

\* the members of the guests-of-honor list in the snapshot, none when the
\* snapshot has no such list
GuestMembers ==
    IF Has(gb.Lists, GUESTS_OF_HONOR_ID) THEN Range(gb.Lists[GUESTS_OF_HONOR_ID].Items) ELSE {}

\* C11: after a successful loadGuidebook the keys of GuestsOfHonor are the
\* member ids of the list with the guests-of-honor id, each mapped to the
\* Name of its list item (the empty name when there is no such item); with
\* no such list the map is empty, and loadGuidebook has succeeded all the same.
C11_GuestsResolved ==
    /\ Loaded =>
          /\ DOMAIN gb.GuestsOfHonor = GuestMembers
          /\ \A id \in DOMAIN gb.GuestsOfHonor :
                gb.GuestsOfHonor[id] =
                    IF Has(gb.ListItems, id) THEN gb.ListItems[id].Name ELSE ""
          /\ ~Has(gb.Lists, GUESTS_OF_HONOR_ID) => gb.GuestsOfHonor = EmptyMap
    /\ (pc = "guests" /\ ~Has(gb.Lists, GUESTS_OF_HONOR_ID)) => ENABLED GuestsOfHonor

\* the list has a member from its direct listing that is no list item and a
\* member found by inversion, and both are resolved
C11_Witness ==
    /\ pc = "loaded"
    /\ DOMAIN gb.GuestsOfHonor = {2, 5}
    /\ gb.GuestsOfHonor[2] = "Bob"
    /\ gb.GuestsOfHonor[5] = ""

\* loadGuidebook has succeeded on a snapshot without a guests-of-honor list
C11_WitnessNoList ==
    /\ pc = "loaded"
    /\ ~Has(gb.Lists, GUESTS_OF_HONOR_ID)
    /\ gb.GuestsOfHonor = EmptyMap

\* WatsonFromGuidebook has returned without error
Transformed == watson.called /\ watson.ok

\* C12: when WatsonFromGuidebook succeeds, its output is as long as
\* gb.Sessions and its ids, titles and descriptions are those of the input
\* sessions in some order, every session once.
C12_OnePerSession ==
    Transformed =>
        /\ Len(watson.sessions) = Len(watson.arg.Sessions)
        /\ \E p \in Orders(DOMAIN watson.arg.Sessions) :
              \A i \in DOMAIN watson.sessions :
                  /\ watson.sessions[i].ID = watson.arg.Sessions[p[i]].ID
                  /\ watson.sessions[i].Name = watson.arg.Sessions[p[i]].Name
                  /\ watson.sessions[i].Description = watson.arg.Sessions[p[i]].Description

\* two sessions, one of them without location, have come out in the
\* opposite order
C12_Witness ==
    /\ Transformed
    /\ Len(watson.arg.Sessions) = 2
    /\ watson.arg.Sessions[1].ID = 1
    /\ watson.arg.Sessions[2].ID = 2
    /\ watson.sessions[1].ID = 2
    /\ watson.sessions[2].ID = 1

\* the input session an output session was made of (the ids of the sessions
\* of TransformSessions differ)
Source(o) == CHOOSE gs \in Range(watson.arg.Sessions) : gs.ID = o.ID

\* the output sessions of a transform that has succeeded
Outputs == IF Transformed THEN Range(watson.sessions) ELSE {}

\* C13: a session with n >= 1 location ids has n Locations, the i-th being
\* the name of its i-th location id in the location map, or the empty
\* string when the map does not have that id; a session with no location
\* id has the one location "Discord".
C13_Locations ==
    \A o \in Outputs :
        LET ids == Source(o).Locations
        IN  IF Len(ids) >= 1
            THEN /\ Len(o.Locations) = Len(ids)
                 /\ \A i \in DOMAIN ids :
                       o.Locations[i] = IF Has(watson.arg.Locations, ids[i])
                                        THEN watson.arg.Locations[ids[i]] ELSE ""
            ELSE o.Locations = <<"Discord">>

\* a session in three rooms, of which only the first is known, and a
\* session without location have been transformed
C13_Witness ==
    /\ Transformed
    /\ \E o \in Outputs : o.ID = 4 /\ o.Locations = <<"Room X", "", "">>
    /\ \E o \in Outputs : o.ID = 2 /\ o.Locations = <<"Discord">>

\* C14: if the start or the end timestamp of a session does not parse, the
\* transform fails, and no output session is returned or written.
C14_NoPartialOutput ==
    /\ (watson.called /\ \E gs \in Range(watson.arg.Sessions) : ~Parses(gs)) => ~watson.ok
    /\ (watson.called /\ ~watson.ok) =>
          /\ watson.sessions = <<>>
          /\ output = NoOutput

\* instant a is before instant b
Before(a, b) == a.sec < b.sec \/ (a.sec = b.sec /\ a.nsec < b.nsec)

\* instant a, n minutes later
Later(a, n) == [a EXCEPT !.sec = @ + 60 * n]

\* C15: DurationMinutes is the number of whole minutes from start to end,
\* the partial minute dropped: start + d minutes is not after the end, and
\* start + (d + 1) minutes is after it (and the same towards zero for an
\* end before the start); 10:00:00 to 10:32:30 gives 32, and less than a
\* minute gives 0.
C15_WholeMinutes ==
    \A o \in Outputs :
        LET start  == ParseTime(Source(o).StartTime)
            finish == ParseTime(Source(o).EndTime)
            d      == o.DurationMinutes
        IN  /\ ~Before(finish, start) =>
                  /\ d >= 0
                  /\ ~Before(finish, Later(start, d))
                  /\ Before(finish, Later(start, d + 1))
            /\ Before(finish, start) =>
                  /\ d <= 0
                  /\ ~Before(Later(start, d), finish)
                  /\ Before(Later(start, d - 1), finish)
            /\ (start.sec = 36000 /\ start.nsec = 0 /\ finish.sec = 37950 /\ finish.nsec = 0)
                  => d = 32
            /\ (~Before(finish, start) /\ Before(finish, Later(start, 1))) => d = 0

\* a session of 32 minutes and 30 seconds and one of just under a minute
\* have been transformed
C15_Witness ==
    /\ Transformed
    /\ \E o \in Outputs : o.ID = 1 /\ o.DurationMinutes = 32
    /\ \E o \in Outputs :
          /\ o.ID = 2 /\ o.DurationMinutes = 0
          /\ ParseTime(Source(o).EndTime).sec - ParseTime(Source(o).StartTime).sec = 60

\* a session that ends a minute and a half before it starts
C15_WitnessNegative ==
    /\ Transformed
    /\ \E o \in Outputs : o.ID = 4 /\ o.DurationMinutes = 0 - 1

\* the target ids of a session in the link multimap whose stored target
\* type is the person type
PersonTargets(g, id) ==
    {t \in DOMAIN g.SessionLinks[id].TargetIDs :
        g.SessionLinks[id].TargetIDs[t].TargetType = GB_TARGET_TYPE_PERSON}

\* C16: the ids of the People of an output session are the person-typed
\* target ids of its session in the link multimap, each once; a person's
\* name is the Name of the list item with that id, or empty when there is
\* none; a session without entry in the multimap has no People.
C16_People ==
    \A o \in Outputs :
        IF Has(watson.arg.SessionLinks, o.ID)
        THEN /\ {o.People[i].ID : i \in DOMAIN o.People} = PersonTargets(watson.arg, o.ID)
             /\ Len(o.People) = Cardinality(PersonTargets(watson.arg, o.ID))
             /\ \A i \in DOMAIN o.People :
                   o.People[i].Name =
                       IF Has(watson.arg.ListItems, o.People[i].ID)
                       THEN watson.arg.ListItems[o.People[i].ID].Name ELSE ""
        ELSE o.People = <<>>

\* a session linked to two persons and a stream, and a session linked to a
\* person that is no list item, have been transformed
C16_Witness ==
    /\ Transformed
    /\ \E o \in Outputs :
          /\ o.ID = 1
          /\ Has(watson.arg.SessionLinks, 1)
          /\ DOMAIN watson.arg.SessionLinks[1].TargetIDs = {1, 2, 3}
          /\ Len(o.People) = 2
          /\ \E i \in DOMAIN o.People : o.People[i].ID = 1 /\ o.People[i].Name = "Ann"
    /\ \E o \in Outputs :
          /\ o.ID = 4
          /\ Len(o.People) = 1 /\ o.People[1].ID = 6 /\ o.People[1].Name = ""

\* a session without entry in a multimap that has entries
C16_WitnessNoEntry ==
    /\ Transformed
    /\ watson.arg.SessionLinks # EmptyMap
    /\ \E o \in Outputs : ~Has(watson.arg.SessionLinks, o.ID) /\ o.People = <<>>

\* C17: the Role of every person of every output session is "Guest of
\* Honor" if the person's id is a key of the GuestsOfHonor map of the
\* snapshot, and empty if it is not.
C17_GuestRole ==
    \A o \in Outputs :
        \A i \in DOMAIN o.People :
            /\ o.People[i].Role \in {"Guest of Honor", ""}
            /\ o.People[i].Role = "Guest of Honor"
                  <=> o.People[i].ID \in DOMAIN watson.arg.GuestsOfHonor

\* a session with a guest of honor and another person has been transformed
C17_Witness ==
    /\ Transformed
    /\ \E o \in Outputs :
          /\ \E i \in DOMAIN o.People :
                o.People[i].Name = "Bob" /\ o.People[i].Role = "Guest of Honor"
          /\ \E i \in DOMAIN o.People :
                o.People[i].Name = "Ann" /\ o.People[i].Role = ""

\* the Environment tags of an output session, and whether one has a label
EnvTags(o) == SelectSeq(o.Tags, LAMBDA t : t.Category = "Environment")

HasEnv(o, label) == \E i \in DOMAIN EnvTags(o) : EnvTags(o)[i].Label = label

Sentinels == {VIRTUAL_ROOM_1, VIRTUAL_ROOM_2}

InVirtualRoom(gs) == \E i \in DOMAIN gs.Locations : gs.Locations[i] \in Sentinels

InOtherRoom(gs) == \E i \in DOMAIN gs.Locations : gs.Locations[i] \notin Sentinels

\* one of the tracks of the session has the name "virtual" in the snapshot
OnVirtualTrack(g, gs) ==
    \E i \in DOMAIN gs.ScheduleTracks :
        Has(g.Tracks, gs.ScheduleTracks[i]) /\ g.Tracks[gs.ScheduleTracks[i]] = Virtual

\* C18 as stated: the Environment tags are decided by the location ids
\* alone: "Virtual Session" exactly when a location id is a sentinel, "In
\* Person Session" exactly when a location id is not a sentinel.
C18_TagsByLocation ==
    \A o \in Outputs :
        /\ HasEnv(o, "Virtual Session") <=> InVirtualRoom(Source(o))
        /\ HasEnv(o, "In Person Session") <=> InOtherRoom(Source(o))

\* C18 as amended: "Virtual Session" is present exactly when a location id
\* is a sentinel or a track of the session resolves to the name "virtual";
\* "In Person Session" is present exactly when a location id is not a
\* sentinel; each tag is present at most once and there is no other
\* Environment tag.
C18_TagsByLocationOrTrack ==
    \A o \in Outputs :
        LET virtual   == InVirtualRoom(Source(o)) \/ OnVirtualTrack(watson.arg, Source(o))
            in_person == InOtherRoom(Source(o))
        IN  /\ HasEnv(o, "Virtual Session") <=> virtual
            /\ HasEnv(o, "In Person Session") <=> in_person
            /\ Len(EnvTags(o)) = (IF virtual THEN 1 ELSE 0) + (IF in_person THEN 1 ELSE 0)
            /\ (Source(o).Locations = <<VIRTUAL_ROOM_1>>) =>
                  Len(EnvTags(o)) = 1 /\ HasEnv(o, "Virtual Session")

\* a session in a virtual room only, and a session in a room that is not
\* virtual on a track named virtual, have been transformed
C18_Witness ==
    /\ Transformed
    /\ \E o \in Outputs :
          /\ Source(o).Locations = <<VIRTUAL_ROOM_1>>
          /\ HasEnv(o, "Virtual Session") /\ ~HasEnv(o, "In Person Session")
    /\ \E o \in Outputs :
          /\ ~InVirtualRoom(Source(o)) /\ OnVirtualTrack(watson.arg, Source(o))
          /\ HasEnv(o, "Virtual Session") /\ HasEnv(o, "In Person Session")

\* a session in a room and a virtual room has both tags
C18_WitnessBoth ==
    /\ Transformed
    /\ \E o \in Outputs :
          /\ o.ID = 4
          /\ HasEnv(o, "Virtual Session") /\ HasEnv(o, "In Person Session")

\* C19: every output session has at least one of its flags in_person and
\* virtual set and carries at least one Environment tag; a session for
\* which BuildSessionTags derived neither flag is in person and carries the
\* "In Person Session" tag.
C19_Classified ==
    \A o \in Outputs :
        /\ o.in_person \/ o.virtual
        /\ Len(EnvTags(o)) >= 1
        /\ (~InVirtualRoom(Source(o)) /\ ~InOtherRoom(Source(o))
              /\ ~OnVirtualTrack(watson.arg, Source(o))) =>
              o.in_person /\ HasEnv(o, "In Person Session")

\* the Track tags of the output sessions whose track resolved to "Art & Craft"
ArtAndCraftTags ==
    UNION {{o.Tags[i] : i \in {j \in DOMAIN o.Tags :
                                 o.Tags[j].Category = "Track" /\ o.Tags[j].Label = ArtAndCraft}}
           : o \in Outputs}

\* C20 as stated: the Track tag of a track whose resolved name is
\* "Art & Craft" has the value "track_art_craft".
C20_ArtCraftSlug ==
    \A t \in ArtAndCraftTags :
        t.Value = <<"t", "r", "a", "c", "k", "_", "a", "r", "t", "_", "c", "r", "a", "f", "t">>

\* C20 as amended: the value is "track_art__craft", with one underscore for
\* each of the two spaces around the "&" that is stripped.
C20_ArtCraftSlugTwoUnderscores ==
    \A t \in ArtAndCraftTags :
        t.Value = <<"t", "r", "a", "c", "k", "_", "a", "r", "t", "_", "_", "c", "r", "a", "f", "t">>

\* a session on the track "Art & Craft" has been transformed
C20_Witness ==
    /\ Transformed
    /\ ArtAndCraftTags # {}
    /\ \E o \in Outputs : 1 \in Range(Source(o).ScheduleTracks) /\ Len(o.Tags) >= 2

\* the session was classified virtual: by a room or by a track
ClassifiedVirtual(o) ==
    InVirtualRoom(Source(o)) \/ OnVirtualTrack(watson.arg, Source(o))

\* C21: every output session has the chat deep link of its id; it has the
\* session deep link of its id if it was classified virtual, and no session
\* link if it was not, the sessions defaulted to in person included.
C21_DeepLinks ==
    \A o \in Outputs :
        /\ o.Links.Chat = [base |-> "chat", item_id |-> o.ID]
        /\ ClassifiedVirtual(o) => o.Links.Session = [base |-> "session", item_id |-> o.ID]
        /\ ~ClassifiedVirtual(o) => o.Links.Session = [base |-> "", item_id |-> 0]
        /\ ClassifiedVirtual(o) <=> o.virtual

\* a session in a room and a virtual room, and a session without location
\* defaulted to in person, have been transformed
C21_Witness ==
    /\ Transformed
    /\ \E o \in Outputs :
          /\ o.ID = 4 /\ o.in_person /\ o.virtual
          /\ o.Links.Session.base = "session" /\ o.Links.Session.item_id = 4
    /\ \E o \in Outputs :
          /\ o.ID = 2 /\ Source(o).Locations = <<>> /\ o.in_person
          /\ o.Links.Session.base = "" /\ o.Links.Chat.item_id = 2

\* C22: whatever the order of the input sessions, the output of a
\* successful WatsonFromGuidebook is sorted by the StartTime string: no
\* session has a StartTime below that of the session before it.
C22_SortedByStartTime ==
    Transformed =>
        \A i \in DOMAIN watson.sessions :
            i > 1 => ~StrLess(watson.sessions[i].StartTime, watson.sessions[i - 1].StartTime)

\* the session of 11:00 was given before the session of 10:00 and has come
\* out after it
C22_Witness ==
    /\ Transformed
    /\ Len(watson.arg.Sessions) = 2
    /\ watson.arg.Sessions[1].ID = 5
    /\ watson.arg.Sessions[2].ID = 1
    /\ watson.sessions[1].ID = 1
    /\ watson.sessions[2].ID = 5
    /\ StrLess(watson.sessions[1].StartTime, watson.sessions[2].StartTime)

\* the start instant of the input session an output session was made of
StartOf(o) == ParseTime(Source(o).StartTime)

\* C23: the order of the reformatted StartTime strings agrees with the
\* order of the start instants (a session that starts before another does
\* not have the greater string), the instants that differ only in their
\* fractional second included; hence the sorted output is in chronological
\* order.
C23_ChronologicalOrder ==
    /\ \A a, b \in Outputs :
          Before(StartOf(a), StartOf(b)) => ~StrLess(b.StartTime, a.StartTime)
    /\ Transformed =>
          \A i, j \in DOMAIN watson.sessions :
              i < j => ~Before(StartOf(watson.sessions[j]), StartOf(watson.sessions[i]))

\* the Track tags of an output session
TrackTags(o) == SelectSeq(o.Tags, LAMBDA t : t.Category = "Track")

\* C24: on a snapshot whose session timestamps all parse, the transform
\* returns without error, whatever location ids, track ids and
\* link target ids are missing from the location, track and list-item maps;
\* a missing location gives the empty name, a missing track the empty
\* label, a missing list item the empty person name.
C24_DanglingTolerated ==
    /\ (watson.called /\ \A gs \in Range(watson.arg.Sessions) : Parses(gs)) => watson.ok
    /\ \A o \in Outputs :
          /\ \A i \in DOMAIN Source(o).Locations :
                ~Has(watson.arg.Locations, Source(o).Locations[i]) => o.Locations[i] = ""
          /\ \A i \in DOMAIN Source(o).ScheduleTracks :
                ~Has(watson.arg.Tracks, Source(o).ScheduleTracks[i]) =>
                    TrackTags(o)[i].Label = <<>>
          /\ \A i \in DOMAIN o.People :
                ~Has(watson.arg.ListItems, o.People[i].ID) => o.People[i].Name = ""

\* a session with a location, a track and a linked person that the
\* snapshot's maps do not have has been transformed
C24_Witness ==
    /\ Transformed
    /\ watson.arg.Locations # EmptyMap
    /\ watson.arg.Tracks # EmptyMap
    /\ watson.arg.ListItems # EmptyMap
    /\ \E o \in Outputs :
          /\ o.ID = 4
          /\ o.Locations = <<"Room X", "", "">>
          /\ Len(TrackTags(o)) = 1 /\ TrackTags(o)[1].Label = <<>>
          /\ Len(o.People) = 1 /\ o.People[1].ID = 6 /\ o.People[1].Name = ""

\* a string lowercased, after every space was replaced by an underscore and
\* every other character that is no ASCII letter, digit or underscore removed
SlugOf(str) ==
    LET replaced == [i \in DOMAIN str |-> IF str[i] = " " THEN "_" ELSE str[i]]
        kept     == SelectSeq(replaced,
                              LAMBDA c : c \in Range(UpperCase) \cup Range(LowerCase)
                                                \cup Digits \cup {"_"})
    IN  [i \in DOMAIN kept |-> ToLower(kept[i])]

\* the name a track id resolves to in the snapshot, empty if it is unknown
ResolvedTrack(g, st) == IF Has(g.Tracks, st) THEN g.Tracks[st] ELSE <<>>

\* C25: the first n tags of a session with n track ids are Track tags in
\* the order of the track ids, the i-th with the resolved name of the i-th
\* track as label and the slug of "track_" + name as value; every tag after
\* them is an Environment tag.
C25_TrackTags ==
    \A o \in Outputs :
        LET ts == Source(o).ScheduleTracks
        IN  /\ Len(o.Tags) >= Len(ts)
            /\ \A i \in DOMAIN o.Tags :
                  IF i <= Len(ts)
                  THEN /\ o.Tags[i].Category = "Track"
                       /\ o.Tags[i].Label = ResolvedTrack(watson.arg, ts[i])
                       /\ o.Tags[i].Value =
                             SlugOf(<<"t", "r", "a", "c", "k", "_">>
                                    \o ResolvedTrack(watson.arg, ts[i]))
                  ELSE o.Tags[i].Category = "Environment"

\* a session on two tracks, both known, has its two Track tags before its
\* two Environment tags
C25_Witness ==
    /\ Transformed
    /\ \E o \in Outputs :
          /\ o.ID = 5
          /\ Len(o.Tags) = 4
          /\ o.Tags[1].Label = Virtual
          /\ o.Tags[2].Label = ArtAndCraft
          /\ o.Tags[3].Category = "Environment"

\* the snapshot holds nothing of a resource
StoredNothing(what) ==
    CASE what = "sessions" -> gb.Sessions = <<>>
      [] what = "locations" -> gb.Locations = EmptyMap
      [] what = "schedule-tracks" -> gb.Tracks = EmptyMap
      [] what = "custom-lists" -> gb.Lists = EmptyMap
      [] what = "custom-list-items" -> gb.ListItems = EmptyMap
      [] what = "links" -> gb.SessionLinks = EmptyMap /\ gb.OtherLinks = EmptyMap

\* loadGuidebook has returned the error of a multiFetch call
FetchFailed ==
    /\ LoadFailed
    /\ Len(err.chain) >= 2
    /\ err.chain[2] = "failed to fetch results"

\* C26: when a chain ends in a failure that is not retried or in an
\* envelope that does not decode, multiFetch returns no results, whatever
\* pages it had accumulated, and the snapshot holds nothing of that
\* resource: not while the Fetch method handles the error, and not after
\* loadGuidebook has returned it.
C26_AllOrNothing ==
    /\ mf.state = "failed" =>
          /\ mf.buf.array = <<>>
          /\ pc \in FetchSteps
          /\ StoredNothing(pc)
    /\ FetchFailed => StoredNothing(Last(run.chains).what)

\* the locations chain has failed on its second request, after a first
\* page with results
C26_Witness ==
    /\ pc = "locations"
    /\ mf.state = "failed"
    /\ Len(responses) = 2
    /\ IsPage(responses[1])
    /\ responses[1].results # <<>>
    /\ mf.allResults # <<>>
    /\ mf.buf.array = <<>>
    /\ gb.Locations = EmptyMap

\* loadGuidebook has returned the error of the locations chain
C26_WitnessReturned ==
    /\ FetchFailed
    /\ Last(run.chains).what = "locations"
    /\ run.served > Len(gb.Sessions)
    /\ gb.Locations = EmptyMap

\* C27: once WatsonFromGuidebook has returned, with or without error, the
\* snapshot is what it was when the transform was called: its sessions and
\* its seven maps are unchanged, and no map has got a key for an id that
\* was looked up and not found.
C27_SnapshotUnchanged ==
    watson.called =>
        /\ gb = watson.arg
        /\ \A gs \in Range(watson.arg.Sessions) :
              /\ \A i \in DOMAIN gs.Locations :
                    Has(gb.Locations, gs.Locations[i]) <=> Has(watson.arg.Locations, gs.Locations[i])
              /\ \A i \in DOMAIN gs.ScheduleTracks :
                    Has(gb.Tracks, gs.ScheduleTracks[i])
                        <=> Has(watson.arg.Tracks, gs.ScheduleTracks[i])
        /\ DOMAIN gb.ListItems = DOMAIN watson.arg.ListItems
        /\ DOMAIN gb.GuestsOfHonor = DOMAIN watson.arg.GuestsOfHonor

\* the transform has looked up a location, a track and a list item that the
\* maps do not have, and the maps still do not have them
C27_Witness ==
    /\ Transformed
    /\ \E o \in Outputs :
          /\ o.ID = 4
          /\ Len(o.People) = 1
    /\ ~Has(gb.Locations, 8)
    /\ ~Has(gb.Tracks, 9)
    /\ ~Has(gb.ListItems, 6)
    /\ Has(gb.Locations, 7)

\* the transform has returned an error
C27_WitnessError ==
    /\ watson.called /\ ~watson.ok
    /\ watson.sessions # <<>>
    /\ gb = watson.arg

\* C28: after FetchLists every entry of the Lists map is a custom list the
\* API returned: its ID is its key, and its key is the id of a decoded custom
\* list, whatever list ids the list items name in their CustomLists.
C28_ListsAreAPILists ==
    [][ (pc = "custom-list-items" /\ pc' = "links") =>
            \A k \in DOMAIN gb'.Lists :
                /\ gb'.Lists[k].ID = k
                /\ Has(gb.Lists, k) ]_vars

\* FetchLists has succeeded on a list item that names a list the custom
\* lists do not have
C28_Witness ==
    /\ pc = "links"
    /\ \E id \in DOMAIN gb.ListItems :
          \E i \in DOMAIN gb.ListItems[id].CustomLists :
              gb.ListItems[id].CustomLists[i] \notin {x.ID : x \in ListObjects}

\* the results of the links chain that FetchSessionLinks makes into the link
\* maps of the snapshot g
LinksFetchedFor(g) ==
    {links \in SeqsUpTo(LinkObjects, run.maxItems) :
        PartitionLinks([SessionLinks |-> EmptyMap, OtherLinks |-> EmptyMap], links)
            = [SessionLinks |-> g.SessionLinks, OtherLinks |-> g.OtherLinks]}

PersonLink(w) == FromSession(w) /\ w.TargetType = GB_TARGET_TYPE_PERSON

\* C29: no person link is lost between the API and the output: whatever
\* links were fetched, for each of them that joins a session of Sessions to a
\* person p, the output session of that session has a Person with id p,
\* whatever other links of the session come before or after it.
C29_NoPersonLinkLost ==
    Transformed =>
        \A links \in LinksFetchedFor(watson.arg) :
            \A i \in DOMAIN links :
                (/\ PersonLink(links[i])
                 /\ \E gs \in Range(watson.arg.Sessions) : gs.ID = links[i].SourceID)
                    => \E o \in Outputs :
                          /\ o.ID = links[i].SourceID
                          /\ \E j \in DOMAIN o.People : o.People[j].ID = links[i].TargetID

\* a session has been transformed whose person link was followed by a
\* stream link with the same target id
C29_Witness ==
    /\ Transformed
    /\ \E o \in Outputs : o.ID = 1 /\ o.People = <<>>
    /\ <<CatLink(SESSION_SOURCE_TYPE, 1, GB_TARGET_TYPE_PERSON, 1),
         CatLink(SESSION_SOURCE_TYPE, 1, GB_TARGET_TYPE_STREAM, 1)>>
            \in LinksFetchedFor(watson.arg)

\* the latest answer of the server asks for more: it is a 429 with a
\* positive Retry-After, or a page with a next link
LatestAsksForMore == responses # <<>> /\ AsksForMore(Last(responses))

\* multiFetch is in its loop
Fetching == mf.state \in {"send", "wait"}

\* main has come to its end
Ended == pc \in {"done", "fatal"}

\* C30: multiFetch puts no bound on its own work.  After an answer that asks
\* for more it goes on to another request, however many came before.  When
\* the server gives such answers only finitely often, every call of
\* multiFetch returns and the run ends; when it gives them again and again
\* (a 429 with a positive Retry-After each time, or next links that never
\* end), requests are issued forever, the transform is never reached and
\* the run never ends.
C30_NoBoundOfItsOwn ==
    /\ [](LatestAsksForMore => Fetching)
    /\ (<>[](~LatestAsksForMore)) => ([](Fetching => <>Returned) /\ <>Ended)
    /\ ([]<>LatestAsksForMore) =>
          ([]<>(mf.state = "wait") /\ [](~watson.called) /\ [](~Ended))

\* the server has sent the cursor page for the cursor page again and again,
\* and now a 429 to retry after: multiFetch is about to send the same
\* request once more
C30_Witness ==
    /\ run.forever
    /\ mf.state = "send"
    /\ mf.nextURL = "cursor" /\ requests[1].url = "cursor"
    /\ pc = "sessions"
    /\ guideBookRequestCounter >= 3
    /\ Last(responses).status = StatusTooManyRequests
    /\ LatestAsksForMore

=============================================================================
